---- MODULE Spec2Model ----
(***************************************************************************)
(* The expense ledger of src/expense_tracker.py (class ExpenseTrackerApp): *)
(* the in-memory list self.expenses, the file expenses.json it is saved    *)
(* to, and the handlers that add, edit and delete records.                 *)
(*                                                                         *)
(* Texts (what the user types into an entry, what a record stores) are     *)
(* tuples of one-character strings, so that parsing is computed character  *)
(* by character as float() and datetime.strptime() do it.                  *)
(***************************************************************************)
EXTENDS Integers, Sequences, FiniteSets, TLC

VARIABLES
    expenses,   \* self.expenses: the ledger, a sequence of records
    store,      \* the content of the file self.filename ("expenses.json")
    lastSave,   \* how the most recent call of save_data ended ("none" before any)
    report,     \* what the last handler showed: messagebox texts and the status line
    tree,       \* self.expense_tree: the ids of the rows of the expense list
    chart,      \* self.chart_frame: the report drawn on the Reports tab
    csv,        \* the file the last export wrote
    search_entry,       \* the text of self.search_entry
    quick_category_entry,   \* the values offered by self.quick_category_entry
    report_type,        \* self.report_type: the radio button of the Reports tab
    from_date_entry,    \* the text of the From entry
    to_date_entry       \* the text of the To entry

vars == <<expenses, store, lastSave, report, tree, chart, csv, search_entry,
          quick_category_entry,
          report_type, from_date_entry, to_date_entry>>

\* The widgets of the Reports tab the user sets.
options == <<report_type, from_date_entry, to_date_entry>>

----------------------------------------------------------------------------
(* Bounds of the model *)

\* The longest ledger the model builds (an add is not taken beyond it).
MaxLen == 2

\* The largest id the model lets get_next_id hand out.
MaxId == MaxLen + 1

\* The tree selection of an edit or delete when no row is selected.
NoSelection == 0

----------------------------------------------------------------------------
(* Characters and texts *)

Digits == <<"0", "1", "2", "3", "4", "5", "6", "7", "8", "9">>

IsDigit(c) == \E i \in 1..10 : Digits[i] = c

DigitVal(c) == (CHOOSE i \in 1..10 : Digits[i] = c) - 1

UpperCase == <<"A","B","C","D","E","F","G","H","I","J","K","L","M",
               "N","O","P","Q","R","S","T","U","V","W","X","Y","Z">>

LowerCase == <<"a","b","c","d","e","f","g","h","i","j","k","l","m",
               "n","o","p","q","r","s","t","u","v","w","x","y","z">>

\* str.lower() on one character.
LowerChar(c) ==
    IF \E i \in 1..26 : UpperCase[i] = c
    THEN LowerCase[CHOOSE i \in 1..26 : UpperCase[i] = c]
    ELSE c

\* str.lower()
Lower(t) == [i \in 1..Len(t) |-> LowerChar(t[i])]

\* The digits of t read as a decimal number (0 for the empty text).
RECURSIVE DigitsToNat(_)
DigitsToNat(t) ==
    IF t = <<>> THEN 0
    ELSE 10 * DigitsToNat(SubSeq(t, 1, Len(t) - 1)) + DigitVal(t[Len(t)])

AllDigits(t) == \A i \in 1..Len(t) : IsDigit(t[i])

\* str.strip() as float() applies it to its argument (blanks at both ends).
RECURSIVE Strip(_)
Strip(t) ==
    IF t = <<>> THEN t
    ELSE IF t[1] = " " THEN Strip(Tail(t))
    ELSE IF t[Len(t)] = " " THEN Strip(SubSeq(t, 1, Len(t) - 1))
    ELSE t

\* The characters of the model's texts in ascending code point order.
CodePoints ==
    <<" ", "\"", ",", "-", ".", "/",
      "0", "1", "2", "3", "4", "5", "6", "7", "8", "9",
      "A","B","C","D","E","F","G","H","I","J","K","L","M",
      "N","O","P","Q","R","S","T","U","V","W","X","Y","Z", "\\",
      "a","b","c","d","e","f","g","h","i","j","k","l","m",
      "n","o","p","q","r","s","t","u","v","w","x","y","z">>

\* The place of each character in that order.
Ord ==
    [c \in {CodePoints[i] : i \in 1..Len(CodePoints)} |->
        CHOOSE i \in 1..Len(CodePoints) : CodePoints[i] = c]

\* a < b on str from position i on, the texts being equal before it.
RECURSIVE LessFrom(_, _, _)
LessFrom(a, b, i) ==
    IF i > Len(b) THEN FALSE
    ELSE IF i > Len(a) THEN TRUE
    ELSE IF a[i] # b[i] THEN Ord[a[i]] < Ord[b[i]]
    ELSE LessFrom(a, b, i + 1)

\* a < b on str: by code point, a proper prefix first.
StrLess(a, b) == LessFrom(a, b, 1)

\* a <= b on str.
StrLeq(a, b) == a = b \/ StrLess(a, b)

\* `part in text` on str.
Contains(text, part) ==
    \E i \in 0..(Len(text) - Len(part)) : SubSeq(text, i + 1, i + Len(part)) = part

\* str(n) of a natural number.
RECURSIVE NatToDigits(_)
NatToDigits(n) ==
    IF n < 10 THEN <<Digits[n + 1]>>
    ELSE Append(NatToDigits(n \div 10), Digits[(n % 10) + 1])

\* str(n) of an int.
IntToText(n) == IF n < 0 THEN <<"-">> \o NatToDigits(0 - n) ELSE NatToDigits(n)

----------------------------------------------------------------------------
(* Python floats, as far as the ledger needs them: a decimal m / 10^e with *)
(* no trailing zero in the fraction, or one of the special values nan and  *)
(* +-inf (m carries the sign of an infinity).                              *)

NaN == [kind |-> "nan", m |-> 0, e |-> 0]

Inf(sign) == [kind |-> "inf", m |-> sign, e |-> 0]

RECURSIVE Num(_, _)
Num(m, e) ==
    IF e > 0 /\ m % 10 = 0 THEN Num(m \div 10, e - 1)
    ELSE [kind |-> "num", m |-> m, e |-> e]

\* The comparison `amount <= 0` of the handlers: every comparison with nan is False.
LeZero(x) ==
    CASE x.kind = "nan" -> FALSE
      [] x.kind = "inf" -> x.m < 0
      [] OTHER          -> x.m <= 0

RECURSIVE Pow10(_)
Pow10(e) == IF e = 0 THEN 1 ELSE 10 * Pow10(e - 1)

\* a + b on floats: nan is absorbing, an infinity wins over a number (the
\* ledger holds no negative amount, so inf - inf does not arise).
FAdd(a, b) ==
    IF a.kind = "nan" \/ b.kind = "nan" THEN NaN
    ELSE IF a.kind = "inf" THEN a
    ELSE IF b.kind = "inf" THEN b
    ELSE IF a.e >= b.e THEN Num(a.m + b.m * Pow10(a.e - b.e), a.e)
    ELSE Num(a.m * Pow10(b.e - a.e) + b.m, b.e)

Zero == Num(0, 0)

\* sum(...) of a sequence of floats, left to right from 0.
RECURSIVE FSum(_)
FSum(xs) == IF xs = <<>> THEN Zero ELSE FAdd(FSum(SubSeq(xs, 1, Len(xs) - 1)), xs[Len(xs)])

\* The e digits of the fraction of |m| / 10^e, zero-padded on the left.
RECURSIVE FracDigits(_, _)
FracDigits(m, e) ==
    IF e = 0 THEN <<>> ELSE Append(FracDigits(m \div 10, e - 1), Digits[(m % 10) + 1])

\* repr(x), which str(x) and the csv writer use: at least one digit after
\* the point; nan and inf by name.
FloatRepr(x) ==
    LET abs == IF x.m < 0 THEN 0 - x.m ELSE x.m
    IN  IF x.kind = "nan" THEN <<"n","a","n">>
        ELSE IF x.kind = "inf"
             THEN (IF x.m < 0 THEN <<"-">> ELSE <<>>) \o <<"i","n","f">>
        ELSE (IF x.m < 0 THEN <<"-">> ELSE <<>>)
             \o NatToDigits(abs \div Pow10(x.e)) \o <<".">>
             \o (IF x.e = 0 THEN <<"0">> ELSE FracDigits(abs % Pow10(x.e), x.e))

\* The position of the decimal point of t, or 0.
PointAt(t) ==
    IF \E i \in 1..Len(t) : t[i] = "." THEN CHOOSE i \in 1..Len(t) : t[i] = "." ELSE 0

\* float() on an unsigned body: nan, inf, infinity (any case), or digits with
\* an optional decimal point and at least one digit. The result is
\* [ok |-> FALSE] where float() raises ValueError.
ParseUnsigned(t, sign) ==
    LET low == Lower(t)
        p   == PointAt(t)
        ip  == IF p = 0 THEN t ELSE SubSeq(t, 1, p - 1)
        fp  == IF p = 0 THEN <<>> ELSE SubSeq(t, p + 1, Len(t))
    IN  IF low = <<"n","a","n">> THEN [ok |-> TRUE, val |-> NaN]
        ELSE IF low = <<"i","n","f">> \/ low = <<"i","n","f","i","n","i","t","y">>
             THEN [ok |-> TRUE, val |-> Inf(sign)]
        ELSE IF AllDigits(ip) /\ AllDigits(fp) /\ Len(ip) + Len(fp) > 0
             THEN [ok |-> TRUE,
                   val |-> Num(sign * DigitsToNat(ip \o fp), Len(fp))]
        ELSE [ok |-> FALSE, val |-> NaN]

\* float(text): blanks stripped, an optional sign, then the body.
ParseFloat(text) ==
    LET t == Strip(text)
    IN  IF t = <<>> THEN [ok |-> FALSE, val |-> NaN]
        ELSE IF t[1] = "-" THEN ParseUnsigned(Tail(t), -1)
        ELSE IF t[1] = "+" THEN ParseUnsigned(Tail(t), 1)
        ELSE ParseUnsigned(t, 1)

----------------------------------------------------------------------------
(* datetime.datetime.strptime(date_str, "%Y-%m-%d").  The format compiles  *)
(* to the regular expression                                               *)
(*   (\d\d\d\d)-(1[0-2]|0[1-9]|[1-9])-(3[01]|[12]\d|0[1-9]|[1-9]| [1-9])    *)
(* matched at the start of the text; text left over after the match, and a *)
(* day the month does not have, raise ValueError.                          *)

InRange(c, lo, hi) == IsDigit(c) /\ DigitVal(c) >= lo /\ DigitVal(c) <= hi

\* The length of the month matched at position p (the first alternative that
\* matches and is followed by "-"), or 0.
MonthLen(t, p) ==
    IF Len(t) >= p + 2 /\ t[p + 2] = "-"
       /\ \/ t[p] = "1" /\ InRange(t[p + 1], 0, 2)
          \/ t[p] = "0" /\ InRange(t[p + 1], 1, 9)
    THEN 2
    ELSE IF Len(t) >= p + 1 /\ InRange(t[p], 1, 9) /\ t[p + 1] = "-"
    THEN 1
    ELSE 0

\* The length of the day matched at position p (the first alternative that
\* matches), or 0.
DayLen(t, p) ==
    IF Len(t) >= p + 1
       /\ \/ t[p] = "3" /\ InRange(t[p + 1], 0, 1)
          \/ InRange(t[p], 1, 2) /\ IsDigit(t[p + 1])
          \/ t[p] = "0" /\ InRange(t[p + 1], 1, 9)
    THEN 2
    ELSE IF Len(t) >= p /\ InRange(t[p], 1, 9)
    THEN 1
    ELSE IF Len(t) >= p + 1 /\ t[p] = " " /\ InRange(t[p + 1], 1, 9)
    THEN 2
    ELSE 0

IsLeap(y) == y % 4 = 0 /\ (y % 100 # 0 \/ y % 400 = 0)

DaysInMonth(y, m) ==
    IF m = 2 THEN (IF IsLeap(y) THEN 29 ELSE 28)
    ELSE IF m \in {4, 6, 9, 11} THEN 30
    ELSE 31

\* [ok, y, m, d]: ok is FALSE where strptime raises ValueError.
strptime(t) ==
    LET bad  == [ok |-> FALSE, y |-> 0, m |-> 0, d |-> 0]
        ml   == MonthLen(t, 6)
        dl   == DayLen(t, 7 + ml)
        y    == DigitsToNat(SubSeq(t, 1, 4))
        m    == DigitsToNat(SubSeq(t, 6, 5 + ml))
        dtxt == SubSeq(t, 7 + ml, 6 + ml + dl)
        d    == DigitsToNat(IF dtxt[1] = " " THEN Tail(dtxt) ELSE dtxt)
    IN  IF Len(t) < 5 \/ ~AllDigits(SubSeq(t, 1, 4)) \/ t[5] # "-" THEN bad
        ELSE IF ml = 0 \/ dl = 0 THEN bad
        ELSE IF Len(t) # 6 + ml + dl THEN bad
        ELSE IF y < 1 \/ d > DaysInMonth(y, m) THEN bad
        ELSE [ok |-> TRUE, y |-> y, m |-> m, d |-> d]

----------------------------------------------------------------------------
(* What the user types: the four entries of a form (amount, category,      *)
(* description, date), each a text.                                        *)

T_50 == <<"5","0">>

T_25_5 == <<"2","5",".","5">>

T_Zero == <<"0">>

T_Minus5 == <<"-","5">>

T_Abc == <<"a","b","c">>

T_Nan == <<"n","a","n">>

T_Dining == <<"D","i","n","i","n","g">>

T_Shopping == <<"S","h","o","p","p","i","n","g">>

T_Blank == <<" ">>

T_FastFood == <<"F","a","s","t"," ","f","o","o","d">>

T_Books == <<"B","o","o","k","s">>

T_Jan05 == <<"2","0","2","4","-","0","1","-","0","5">>

T_Feb01 == <<"2","0","2","4","-","0","2","-","0","1">>

T_Jan5Unpadded == <<"2","0","2","4","-","1","-","5">>

T_Feb30 == <<"2","0","2","4","-","0","2","-","3","0">>

T_Slashes == <<"0","1","/","0","5","/","2","0","2","4">>

Form(a, c, d, dt) == [amount |-> a, category |-> c, description |-> d, date |-> dt]

\* The forms the model submits: two well-formed ones, and variations of the
\* first in one entry each.
Forms ==
    { Form(T_50,     T_Dining,   T_FastFood, T_Jan05),
      Form(T_25_5,   T_Shopping, T_Books,    T_Feb01),
      Form(T_Zero,   T_Dining,   T_FastFood, T_Jan05),
      Form(T_Minus5, T_Dining,   T_FastFood, T_Jan05),
      Form(T_Abc,    T_Dining,   T_FastFood, T_Jan05),
      Form(T_Nan,    T_Dining,   T_FastFood, T_Jan05),
      Form(T_50,     <<>>,       T_FastFood, T_Jan05),
      Form(T_50,     T_Blank,    <<>>,       T_Jan05),
      Form(T_50,     T_Dining,   T_FastFood, T_Jan5Unpadded),
      Form(T_50,     T_Dining,   T_FastFood, T_Feb30),
      Form(T_50,     T_Dining,   T_FastFood, T_Slashes) }

\* The id edit and delete read from the selected row.  It is drawn from every
\* id, so that the handlers' loops also run on an id the ledger does not hold.
Ids == 1..MaxId

Selections == {NoSelection} \cup Ids

----------------------------------------------------------------------------
(* The ledger *)

Expense(id, amount, category, description, date) ==
    [id |-> id, amount |-> amount, category |-> category,
     description |-> description, date |-> date]

\* The records create_sample_data draws from.
SampleRecord(id, k) ==
    IF k = 1 THEN Expense(id, Num(50, 0), T_Dining, T_FastFood, T_Jan05)
    ELSE Expense(id, Num(255, 1), T_Shopping, T_Books, T_Feb01)

IdsOf(ledger) == {ledger[i].id : i \in 1..Len(ledger)}

MaxOf(S) == CHOOSE x \in S : \A y \in S : y <= x

\* get_next_id with the off-by-one slip: the largest id itself.
get_next_id_max(ledger) ==
    IF ledger = <<>> THEN 1 ELSE MaxOf(IdsOf(ledger))

\* get_next_id counting the records instead of taking the largest id.
get_next_id_count(ledger) == Len(ledger) + 1

\* get_next_id filling gaps: the smallest id no record has.
get_next_id_gap(ledger) ==
    CHOOSE n \in 1..(Len(ledger) + 1) :
        /\ n \notin IdsOf(ledger)
        /\ \A m \in 1..(n - 1) : m \in IdsOf(ledger)

get_next_id(ledger) ==
    IF ledger = <<>> THEN 1 ELSE MaxOf(IdsOf(ledger)) + 1

\* The record add_expense_data builds and appends (before it saves).
add_expense_data(ledger, amount, category, description, date) ==
    Append(ledger, Expense(get_next_id(ledger), amount, category, description, date))

\* The index of the first record with this id (the handlers' for loop with
\* break), or 0 when the loop ends without a match.
IndexOfId(ledger, id) ==
    IF \E i \in 1..Len(ledger) : ledger[i].id = id
    THEN CHOOSE i \in 1..Len(ledger) :
            ledger[i].id = id /\ \A j \in 1..(i - 1) : ledger[j].id # id
    ELSE 0

\* `del self.expenses[index]` taking the last record instead (a pop()).
DeleteAtLast(ledger, index) == SubSeq(ledger, 1, Len(ledger) - 1)

\* del self.expenses[index]
DeleteAt(ledger, index) ==
    SubSeq(ledger, 1, index - 1) \o SubSeq(ledger, index + 1, Len(ledger))

\* The four assignments of update_expense written to every record.
UpdateAtAll(ledger, index, amount, category, description, date) ==
    [i \in 1..Len(ledger) |->
        Expense(ledger[i].id, amount, category, description, date)]

\* The four assignments self.expenses[index][...] = ... of update_expense.
UpdateAt(ledger, index, amount, category, description, date) ==
    [ledger EXCEPT ![index] =
        Expense(ledger[index].id, amount, category, description, date)]

----------------------------------------------------------------------------
(* The file.  [kind |-> "ledger", data |-> j]: the file holds the JSON     *)
(* array j, one object per record, each member's value as JSON text.       *)
(* "absent": there is no file.  "partial": a write stopped part-way (the   *)
(* text is a proper prefix of an array, which json.load does not take).    *)

\* json.dump of a float: repr, with nan and the infinities as NaN, Infinity
\* and -Infinity.
JsonFloat(x) ==
    IF x.kind = "nan" THEN <<"N","a","N">>
    ELSE IF x.kind = "inf"
         THEN (IF x.m < 0 THEN <<"-">> ELSE <<>>) \o <<"I","n","f","i","n","i","t","y">>
    ELSE FloatRepr(x)

\* The body of a JSON string: quote and backslash escaped.
RECURSIVE JsonEscape(_)
JsonEscape(t) ==
    IF \A i \in 1..Len(t) : t[i] # "\"" /\ t[i] # "\\" THEN t
    ELSE (IF t[1] = "\"" \/ t[1] = "\\" THEN <<"\\", t[1]>> ELSE <<t[1]>>)
         \o JsonEscape(Tail(t))

\* json.dump of a str.
JsonString(t) == <<"\"">> \o JsonEscape(t) \o <<"\"">>

\* json.dump of one record: each member's value as JSON text.
JsonRecord(r) ==
    [id |-> IntToText(r.id), amount |-> JsonFloat(r.amount),
     category |-> JsonString(r.category),
     description |-> JsonString(r.description), date |-> JsonString(r.date)]

\* The records the handlers and create_sample_data can build.  What
\* json.dump writes for a record depends on the record alone, so it is
\* tabulated over them (Encoded); any other record is encoded on the spot.
KnownRecords ==
    { Expense(id, ParseFloat(f.amount).val, f.category, f.description, f.date) :
        id \in Ids, f \in {g \in Forms : ParseFloat(g.amount).ok} }
    \cup { SampleRecord(id, k) : id \in Ids, k \in 1..2 }

Encoded == [r \in KnownRecords |-> JsonRecord(r)]

\* json.dump(self.expenses, f, indent=2): the array, in order.
JsonDump(ledger) ==
    [i \in 1..Len(ledger) |->
        IF ledger[i] \in KnownRecords THEN Encoded[ledger[i]]
        ELSE JsonRecord(ledger[i])]

\* json.load of a number: NaN and the infinities by name, a float where the
\* text has a fraction, an int otherwise.
JsonNumber(t) ==
    IF t = <<"N","a","N">> THEN NaN
    ELSE IF t = <<"I","n","f","i","n","i","t","y">> THEN Inf(1)
    ELSE IF t = <<"-","I","n","f","i","n","i","t","y">> THEN Inf(-1)
    ELSE IF PointAt(t) # 0 THEN ParseFloat(t).val
    ELSE IF t[1] = "-" THEN 0 - DigitsToNat(Tail(t))
    ELSE DigitsToNat(t)

RECURSIVE JsonUnescape(_)
JsonUnescape(t) ==
    IF \A i \in 1..Len(t) : t[i] # "\\" THEN t
    ELSE IF t[1] = "\\" THEN <<t[2]>> \o JsonUnescape(SubSeq(t, 3, Len(t)))
    ELSE <<t[1]>> \o JsonUnescape(Tail(t))

\* json.load of a str: the text between the quotes, unescaped.
JsonText(t) == JsonUnescape(SubSeq(t, 2, Len(t) - 1))

\* json.load that reads every amount as an int, dropping its fraction.
JsonLoadInt(data) ==
    [i \in 1..Len(data) |->
        LET a == JsonNumber(data[i].amount)
        IN  Expense(JsonNumber(data[i].id),
                    IF a.kind = "num" THEN Num(a.m \div Pow10(a.e), 0) ELSE a,
                    JsonText(data[i].category), JsonText(data[i].description),
                    JsonText(data[i].date))]

\* json.load of one object.
JsonObject(j) ==
    Expense(JsonNumber(j.id), JsonNumber(j.amount), JsonText(j.category),
            JsonText(j.description), JsonText(j.date))

\* What json.load reads from an object depends on the object alone: it is
\* tabulated over the objects Encoded holds.
Decoded == [j \in {Encoded[r] : r \in KnownRecords} |-> JsonObject(j)]

\* json.load(f): the list of records.
JsonLoad(data) ==
    [i \in 1..Len(data) |->
        IF data[i] \in DOMAIN Decoded THEN Decoded[data[i]]
        ELSE JsonObject(data[i])]

Absent == [kind |-> "absent", data |-> <<>>]

Partial == [kind |-> "partial", data |-> <<>>]

Stored(ledger) == [kind |-> "ledger", data |-> JsonDump(ledger)]

\* How a call of save_data can end: the file written, or an exception after
\* open(..., "w") truncated the file (json.dump or the closing flush raising).
SaveOutcomes == {"ok", "write_failed"}

\* save_data that writes nothing.
save_data_skip(ledger, st, out) == st

\* The file after save_data.
save_data(ledger, st, out) ==
    IF out = "ok" THEN Stored(ledger) ELSE Partial

\* The messagebox of save_data's except branch.
SaveReport(out) == IF out = "ok" THEN <<>> ELSE <<"Error saving data">>

----------------------------------------------------------------------------
(* Validation, as save_expense, quick_add_expense and update_expense each  *)
(* spell it out: the text of the error shown, or "" when the form passes.  *)

ValidateForm(f) ==
    LET a == ParseFloat(f.amount)
    IN  IF ~a.ok THEN "Please enter a valid amount"
        ELSE IF LeZero(a.val) THEN "Amount must be positive"
        ELSE IF f.category = <<>> THEN "Category is required"
        ELSE IF ~strptime(f.date).ok THEN "Invalid date format. Use YYYY-MM-DD"
        ELSE ""

----------------------------------------------------------------------------
(* The views: the rows of the expense list, the chart of the Reports tab   *)
(* and the exported file.  Each is computed from self.expenses.            *)

\* The first day of the current month, the default of the From entry.
T_FirstDay == T_Feb01

\* The last day of the current month, the default of the To entry.
T_LastDay == <<"2","0","2","4","-","0","2","-","2","9">>

T_YearStart == <<"2","0","2","4","-","0","1","-","0","1">>

T_YearEnd == <<"2","0","2","4","-","1","2","-","3","1">>

\* The texts of the From and To entries: the defaults, the year, one day,
\* and a text that is no date.
Ranges ==
    { <<T_FirstDay, T_LastDay>>, <<T_YearStart, T_YearEnd>>,
      <<T_Jan05, T_Jan05>>, <<T_YearEnd, T_YearStart>>, <<T_Slashes, T_YearEnd>> }

\* Whether strptime takes both texts of a range.
RangeChecked ==
    [rg \in Ranges |-> strptime(rg[1]).ok /\ strptime(rg[2]).ok]

\* The date texts of the model: those of the forms and of the ranges.
DateTexts ==
    {f.date : f \in Forms} \cup {rg[1] : rg \in Ranges} \cup {rg[2] : rg \in Ranges}

\* a < b on those texts, tabulated.
DateOrder == [a \in DateTexts, b \in DateTexts |-> StrLess(a, b)]

\* a < b on the date of a record or of a range.
DateLess(a, b) ==
    IF a \in DateTexts /\ b \in DateTexts THEN DateOrder[a, b] ELSE StrLess(a, b)

\* a <= b on the date of a record or of a range.
DateLeq(a, b) == a = b \/ DateLess(a, b)

\* a < b on floats: like every comparison, False when either is nan.
FLess(a, b) ==
    IF a.kind = "nan" \/ b.kind = "nan" THEN FALSE
    ELSE IF a.kind = "inf" THEN a.m < 0 /\ ~(b.kind = "inf" /\ b.m < 0)
    ELSE IF b.kind = "inf" THEN b.m > 0
    ELSE a.m * Pow10(b.e) < b.m * Pow10(a.e)

HasNaN(xs) == \E i \in 1..Len(xs) : xs[i].kind = "nan"

\* sorted(rows, key=lambda x: x["date"], reverse=True): by date text,
\* latest first, rows of one date in the order they had.
RECURSIVE SortByDateDesc(_)
SortByDateDesc(rows) ==
    IF rows = <<>> THEN <<>>
    ELSE LET front == SortByDateDesc(SubSeq(rows, 1, Len(rows) - 1))
             x     == rows[Len(rows)]
             k     == Cardinality({i \in 1..Len(front) : ~DateLess(front[i].date, x.date)})
         IN  SubSeq(front, 1, k) \o <<x>> \o SubSeq(front, k + 1, Len(front))

\* sorted(range(len(amounts)), key=lambda i: amounts[i], reverse=True):
\* the indices by amount, largest first, equal amounts in index order.
RECURSIVE SortIndicesDesc(_, _)
SortIndicesDesc(amounts, n) ==
    IF n = 0 THEN <<>>
    ELSE LET front == SortIndicesDesc(amounts, n - 1)
             k     == Cardinality({i \in 1..Len(front) :
                                     ~FLess(amounts[front[i]], amounts[n])})
         IN  SubSeq(front, 1, k) \o <<n>> \o SubSeq(front, k + 1, Len(front))

\* sorted(keys): ascending by code point.
RECURSIVE SortedTexts(_)
SortedTexts(S) ==
    IF S = {} THEN <<>>
    ELSE LET m == CHOOSE x \in S : \A y \in S : StrLeq(x, y)
         IN  <<m>> \o SortedTexts(S \ {m})

\* The keys of a dict filled in the order of ks: each key once, where it
\* first came.
RECURSIVE FirstSeen(_)
FirstSeen(ks) ==
    IF ks = <<>> THEN <<>>
    ELSE LET front == FirstSeen(SubSeq(ks, 1, Len(ks) - 1))
             k     == ks[Len(ks)]
         IN  IF \E i \in 1..Len(front) : front[i] = k THEN front ELSE Append(front, k)

\* The rows of the list as load_expenses fills it: every record, by id.
load_expenses(ledger) ==
    LET rows == SortByDateDesc(ledger) IN [i \in 1..Len(rows) |-> rows[i].id]

\* get_categories: the categories of the ledger that are not the empty
\* text, each once, sorted.
get_categories(ledger) ==
    SortedTexts({ledger[i].category : i \in 1..Len(ledger)} \ {<<>>})

\* The text setup_expenses_tab inserts into the search entry.
T_SearchHint ==
    <<"S","e","a","r","c","h"," ","e","x","p","e","n","s","e","s",".",".",".">>

\* The placeholder of the search entry, as search_expenses compares it.
T_Placeholder ==
    <<"s","e","a","r","c","h"," ","e","x","p","e","n","s","e","s",".",".",".">>

\* The test of search_expenses on one record.
Matches(search_text, r) ==
    \/ Contains(Lower(FloatRepr(r.amount)), search_text)
    \/ Contains(Lower(r.category), search_text)
    \/ Contains(Lower(r.description), search_text)
    \/ Contains(Lower(r.date), search_text)

\* The rows of the list after search_expenses on the entry's text, rows
\* being what the list showed before.
SearchRows(ledger, text, rows) ==
    LET found == SelectSeq(SortByDateDesc(ledger), LAMBDA r : Matches(Lower(text), r))
    IN  IF Lower(text) = T_Placeholder THEN rows
        ELSE [i \in 1..Len(found) |-> found[i].id]

\* filtered_expenses: the records with from_date <= date <= to_date, the
\* three compared as texts.
FilterByRange(ledger, from, to) ==
    SelectSeq(ledger, LAMBDA r : DateLeq(from, r.date) /\ DateLeq(r.date, to))

Amounts(rows) == [i \in 1..Len(rows) |-> rows[i].amount]

\* The more categories than this, the chart collapses the smaller ones.
CollapseAbove == 8

\* The categories the chart keeps when it collapses the rest.
KeptCategories == 7

T_Other == <<"O","t","h","e","r">>

\* The chart frame with nothing in it (refresh_reports has cleared it).
EmptyChart == [kind |-> "empty"]

\* The label shown when no record is in the range.
NoData == [kind |-> "nodata"]

\* The chart frame after the drawing raised: cleared, and nothing packed.
Raised == [kind |-> "raised"]

\* A pie that keeps the largest categories and leaves the rest out.
PieTopOnly(categories, amounts) ==
    IF Len(categories) > CollapseAbove
    THEN LET sorted_indices == SortIndicesDesc(amounts, Len(amounts))
             top == SubSeq(sorted_indices, 1, KeptCategories)
         IN  [labels  |-> [i \in 1..Len(top) |-> categories[top[i]]],
              amounts |-> [i \in 1..Len(top) |-> amounts[top[i]]]]
    ELSE [labels |-> categories, amounts |-> amounts]

\* What goes into the pie: the categories and their totals as they are, or
\* the largest ones followed by "Other" with the sum of the rest.
Pie(categories, amounts) ==
    IF Len(categories) > CollapseAbove
    THEN LET sorted_indices == SortIndicesDesc(amounts, Len(amounts))
             top  == SubSeq(sorted_indices, 1, KeptCategories)
             rest == SubSeq(sorted_indices, KeptCategories + 1, Len(sorted_indices))
         IN  [labels  |-> [i \in 1..Len(top) |-> categories[top[i]]] \o <<T_Other>>,
              amounts |-> [i \in 1..Len(top) |-> amounts[top[i]]]
                          \o <<FSum([i \in 1..Len(rest) |-> amounts[rest[i]]])>>]
    ELSE [labels |-> categories, amounts |-> amounts]

\* show_category_report on valid range texts: the pie and the total label.
CategoryChart(ledger, from, to) ==
    LET filtered   == FilterByRange(ledger, from, to)
        categories == FirstSeen([i \in 1..Len(filtered) |-> filtered[i].category])
        amounts    == [i \in 1..Len(categories) |->
                          FSum(Amounts(SelectSeq(filtered,
                                   LAMBDA r : r.category = categories[i])))]
        pie        == Pie(categories, amounts)
    IN  IF filtered = <<>> THEN NoData
        ELSE [kind |-> "category", labels |-> pie.labels, amounts |-> pie.amounts,
              total |-> FSum(pie.amounts)]

\* expense["date"][:7]
MonthKey(date) == SubSeq(date, 1, IF Len(date) < 7 THEN Len(date) ELSE 7)

\* year, month = month_key.split('-') and datetime(int(year), int(month), 1):
\* whether the label of a month key can be made.
MonthLabelOk(key) ==
    LET dashes == {i \in 1..Len(key) : key[i] = "-"}
        p      == CHOOSE i \in dashes : TRUE
        year   == SubSeq(key, 1, p - 1)
        month  == SubSeq(key, p + 1, Len(key))
    IN  /\ Cardinality(dashes) = 1
        /\ year # <<>> /\ AllDigits(year) /\ DigitsToNat(year) \in 1..9999
        /\ month # <<>> /\ AllDigits(month) /\ DigitsToNat(month) \in 1..12

\* The total of the records of rows whose key is k, added in their order.
TotalOf(rows, keys, k) ==
    FSum(Amounts(SelectSeq([i \in 1..Len(rows) |-> [amount |-> rows[i].amount, key |-> keys[i]]],
                           LAMBDA r : r.key = k)))

\* avg_monthly = sum(monthly_totals.values()) / len(monthly_totals), kept
\* as the quotient num / den.
MonthlyAverage(filtered, keys) ==
    LET months == FirstSeen(keys)
    IN  [num |-> FSum([i \in 1..Len(months) |-> TotalOf(filtered, keys, months[i])]),
         den |-> Len(months)]

\* show_monthly_report on valid range texts: the bars in the order of the
\* sorted month keys, and the average label.  Making a label raises on a
\* key that is not year-dash-month.
MonthlyChart(ledger, from, to) ==
    LET filtered      == FilterByRange(ledger, from, to)
        keys          == [i \in 1..Len(filtered) |-> MonthKey(filtered[i].date)]
        sorted_months == SortedTexts({keys[i] : i \in 1..Len(keys)})
    IN  IF filtered = <<>> THEN NoData
        ELSE IF \E i \in 1..Len(sorted_months) : ~MonthLabelOk(sorted_months[i])
        THEN Raised
        ELSE [kind |-> "monthly", labels |-> sorted_months,
              amounts |-> [i \in 1..Len(sorted_months) |->
                              TotalOf(filtered, keys, sorted_months[i])],
              avg |-> MonthlyAverage(filtered, keys)]

\* k * x for an int k.  Nothing is a number once nan or an infinity is in
\* a least-squares fit.
FScale(k, x) == IF x.kind = "num" THEN Num(k * x.m, x.e) ELSE NaN

\* z[0] of np.polyfit(range(n), amounts, 1), the slope of the least-squares
\* line through (0, amounts[1]), ..., (n - 1, amounts[n]), times the
\* positive number n * (n * n - 1) / 6: the sum of (2 i - (n - 1)) * y_i.
PolyfitSlope(amounts) ==
    LET n == Len(amounts)
    IN  FSum([i \in 1..n |-> FScale(2 * (i - 1) - (n - 1), amounts[i])])

\* A label that calls a flat line increasing.
TrendLabelNonNegative(amounts) ==
    IF Len(amounts) > 1
    THEN (IF ~FLess(PolyfitSlope(amounts), Zero) THEN "increasing" ELSE "decreasing")
    ELSE "none"

\* The label of the trend line: 'increasing' if z[0] > 0 else 'decreasing';
\* no line and no label on a single date.
TrendLabel(amounts) ==
    IF Len(amounts) > 1
    THEN (IF FLess(Zero, PolyfitSlope(amounts)) THEN "increasing" ELSE "decreasing")
    ELSE "none"

\* A trend report that goes on to draw when no record is in the range.
TrendChartUnguarded(ledger, from, to) ==
    LET filtered     == FilterByRange(ledger, from, to)
        keys         == [i \in 1..Len(filtered) |-> filtered[i].date]
        dates        == FirstSeen(keys)
        sorted_dates == SortedTexts({keys[i] : i \in 1..Len(keys)})
        total        == FSum([i \in 1..Len(dates) |-> TotalOf(filtered, keys, dates[i])])
    IN  [kind |-> "trend", labels |-> sorted_dates,
         amounts |-> [i \in 1..Len(sorted_dates) |->
                         TotalOf(filtered, keys, sorted_dates[i])],
         trend |-> "none",
         total |-> total,
         avg |-> [num |-> total, den |-> Len(dates)]]

\* A trend series of running sums.
TrendSeriesCumulative(filtered, sorted_dates) ==
    LET keys == [i \in 1..Len(filtered) |-> filtered[i].date]
    IN  [i \in 1..Len(sorted_dates) |->
            FSum([j \in 1..i |-> TotalOf(filtered, keys, sorted_dates[j])])]

\* [date_totals[d] for d in sorted_dates]: the total of each date.
TrendSeries(filtered, sorted_dates) ==
    LET keys == [i \in 1..Len(filtered) |-> filtered[i].date]
    IN  [i \in 1..Len(sorted_dates) |-> TotalOf(filtered, keys, sorted_dates[i])]

\* show_trend_report on valid range texts: the line through the totals of
\* the dates in sorted order, the label of the trend line, the total and
\* the daily average (the quotient num / den).
TrendChart(ledger, from, to) ==
    LET filtered     == FilterByRange(ledger, from, to)
        keys         == [i \in 1..Len(filtered) |-> filtered[i].date]
        dates        == FirstSeen(keys)
        sorted_dates == SortedTexts({keys[i] : i \in 1..Len(keys)})
        total        == FSum([i \in 1..Len(dates) |-> TotalOf(filtered, keys, dates[i])])
    IN  IF filtered = <<>> THEN NoData
        ELSE [kind |-> "trend", labels |-> sorted_dates,
              amounts |-> TrendSeries(filtered, sorted_dates),
              trend |-> TrendLabel(TrendSeries(filtered, sorted_dates)),
              total |-> total,
              avg |-> [num |-> total, den |-> Len(dates)]]

ReportTypes == {"category", "monthly", "trend"}

\* The chart of the selected report type.
ChartOf(type, ledger, from, to) ==
    IF type = "category" THEN CategoryChart(ledger, from, to)
    ELSE IF type = "monthly" THEN MonthlyChart(ledger, from, to)
    ELSE TrendChart(ledger, from, to)

\* What drawing a chart can end in.  matplotlib and numpy.polyfit are not
\* part of the program; on a nan among the values the drawing may raise,
\* and then the frame is left empty.
Drawn(c) ==
    IF c.kind \in ReportTypes /\ HasNaN(c.amounts) THEN {c, Raised} ELSE {c}

\* The messagebox of a report handler: shown when strptime refuses a text.
RangeReport(from, to) ==
    IF RangeChecked[<<from, to>>] THEN <<>>
    ELSE <<"Invalid date format. Use YYYY-MM-DD">>

\* What a report handler can leave in the chart frame.
Charts(type, ledger, from, to) ==
    IF RangeChecked[<<from, to>>] THEN Drawn(ChartOf(type, ledger, from, to))
    ELSE {EmptyChart}

\* The fieldnames of the DictWriter, which writeheader writes as they are.
CsvHeader == <<"id", "date", "amount", "category", "description">>

\* writer.writerow(expense): the fields in the order of the fieldnames, the
\* id and the amount as str() gives them.
CsvRow(r) == <<IntToText(r.id), r.date, FloatRepr(r.amount), r.category, r.description>>

\* An export in the order of the list on screen.
CsvRowsByDate(ledger) ==
    LET rows == SortByDateDesc(ledger) IN [i \in 1..Len(rows) |-> CsvRow(rows[i])]

\* The rows export_to_csv writes: one for each record of self.expenses.
CsvRows(ledger) == [i \in 1..Len(ledger) |-> CsvRow(ledger[i])]

\* No file has been exported.
NoCsv == [kind |-> "none"]

\* How the export can end: the file written, or an exception after open.
ExportOutcomes == {"ok", "write_failed"}

\* The exported file.
CsvFile(ledger, out) ==
    IF out = "ok" THEN [kind |-> "csv", header |-> CsvHeader, rows |-> CsvRows(ledger)]
    ELSE [kind |-> "partial"]

----------------------------------------------------------------------------
(* Construction: load_data.  With no file, create_sample_data fills the    *)
(* ledger with records numbered 1, 2, ... on ascending dates, and saves.   *)

SampleLedgers ==
    { [i \in 1..n |-> SampleRecord(i, ks[i])] :
        <<n, ks>> \in { p \in (0..MaxLen) \X [1..MaxLen -> 1..2] :
                         \A i \in 1..(p[1] - 1) : p[2][i] <= p[2][i + 1] } }

\* The file is there and holds an empty list.
InitLoaded ==
    /\ expenses = <<>>
    /\ store = Stored(<<>>)
    /\ lastSave = "none"
    /\ report = <<"Loaded">>

\* There is no file: sample data, saved.
InitSampled ==
    \E l \in SampleLedgers, out \in SaveOutcomes :
        /\ expenses = l
        /\ store = save_data(l, Absent, out)
        /\ lastSave = out
        /\ report = SaveReport(out) \o <<"Loaded">>

\* setup_expenses_tab and setup_reports_tab: the list filled by
\* load_expenses, the category report of the current month drawn.
InitViews ==
    /\ tree = load_expenses(expenses)
    /\ report_type = "category"
    /\ from_date_entry = T_FirstDay
    /\ to_date_entry = T_LastDay
    /\ chart \in Charts("category", expenses, T_FirstDay, T_LastDay)
    /\ csv = NoCsv
    /\ search_entry = T_SearchHint
    /\ quick_category_entry = get_categories(expenses)

Init == (InitLoaded \/ InitSampled) /\ InitViews

----------------------------------------------------------------------------
(* The handlers.  Each sets report to what it showed.  The amount a form   *)
(* parses to and the error it is rejected with depend on the form alone,   *)
(* so they are tabulated over the forms the model submits.                 *)

Checked ==
    [f \in Forms |-> [err |-> ValidateForm(f), amount |-> ParseFloat(f.amount).val]]

Rejected(f) ==
    /\ Checked[f].err # ""
    /\ report' = <<Checked[f].err>>
    /\ UNCHANGED <<expenses, store, lastSave, tree, chart, csv, search_entry, quick_category_entry, options>>

\* A commit that drops the change when the save fails.
CommitRollback(new, status) ==
    \E out \in SaveOutcomes :
        /\ lastSave' = out
        /\ report' = SaveReport(out) \o <<status>>
                        \o RangeReport(from_date_entry, to_date_entry)
        /\ expenses' = IF out = "ok" THEN new ELSE expenses
        /\ UNCHANGED <<csv, search_entry, options>>
        /\ store' = save_data(new, store, out)
        /\ tree' = load_expenses(expenses')
        /\ chart' \in Charts(report_type, expenses', from_date_entry, to_date_entry)

\* self.expenses becomes new, then save_data(), the status line, and the
\* views brought up to date: load_expenses and refresh_reports.
Commit(new, status) ==
    LET rows   == load_expenses(new)
        charts == Charts(report_type, new, from_date_entry, to_date_entry)
    IN  \E out \in SaveOutcomes :
            /\ lastSave' = out
            /\ report' = SaveReport(out) \o <<status>>
                            \o RangeReport(from_date_entry, to_date_entry)
            /\ expenses' = new
            /\ UNCHANGED <<csv, search_entry, options>>
            /\ store' = save_data(new, store, out)
            /\ tree' = rows
            /\ chart' \in charts

\* What the two add handlers share: validate, add_expense_data, status.
AddHandler(f) ==
    \/ Rejected(f)
    \/ /\ Checked[f].err = ""
       /\ Len(expenses) < MaxLen
       /\ get_next_id(expenses) <= MaxId
       /\ Commit(add_expense_data(expenses, Checked[f].amount, f.category,
                                  f.description, f.date),
                 "Expense added")
       /\ quick_category_entry' = get_categories(expenses')

\* The Save button of the "+ Add New" dialog.
save_expense(f) == AddHandler(f)

\* The "Add Expense" button of the dashboard.
quick_add_expense(f) == AddHandler(f)

\* The Update button of the edit dialog opened on the record at index.
update_expense(index, f) ==
    \/ Rejected(f)
    \/ /\ Checked[f].err = ""
       /\ Commit(UpdateAt(expenses, index, Checked[f].amount, f.category,
                          f.description, f.date),
                 "Expense updated")
       /\ UNCHANGED quick_category_entry

\* Edit on the selected row.  The dialog is modal (grab_set): the form is
\* submitted against the ledger the dialog was opened on.
edit_expense(sel) ==
    IF sel = NoSelection
    THEN /\ report' = <<"Please select an expense to edit">>
         /\ UNCHANGED <<expenses, store, lastSave, tree, chart, csv, search_entry, quick_category_entry, options>>
    ELSE IF IndexOfId(expenses, sel) = 0
    THEN /\ report' = <<>>
         /\ UNCHANGED <<expenses, store, lastSave, tree, chart, csv, search_entry, quick_category_entry, options>>
    ELSE \E f \in Forms : update_expense(IndexOfId(expenses, sel), f)

\* Delete on the selected row; confirm is the answer to askyesno.
delete_expense(sel, confirm) ==
    IF sel = NoSelection
    THEN /\ report' = <<"Please select an expense to delete">>
         /\ UNCHANGED <<expenses, store, lastSave, tree, chart, csv, search_entry, quick_category_entry, options>>
    ELSE IF ~confirm \/ IndexOfId(expenses, sel) = 0
    THEN /\ report' = <<>>
         /\ UNCHANGED <<expenses, store, lastSave, tree, chart, csv, search_entry, quick_category_entry, options>>
    ELSE /\ Commit(DeleteAt(expenses, IndexOfId(expenses, sel)), "Expense deleted")
         /\ UNCHANGED quick_category_entry

\* An except branch that shows nothing.
LoadReportSilent(st) == <<>>

\* The messagebox of load_data's except branch: json.load raises on a file
\* that does not hold a whole JSON text.
LoadReport(st) == IF st.kind = "partial" THEN <<"Error loading data">> ELSE <<>>

\* The application is started again on the file the last run left:
\* __init__ calls load_data.  A file that parses becomes the ledger; with
\* no file, or one that does not parse, create_sample_data fills the
\* ledger and saves it over the file.
load_data ==
    /\ IF store.kind = "ledger"
       THEN /\ lastSave' = "none"
            /\ report' = <<"Loaded">>
            /\ store' = store
            /\ expenses' = JsonLoad(store.data)
       ELSE \E l \in SampleLedgers, out \in SaveOutcomes :
               /\ expenses' = l
               /\ store' = save_data(l, store, out)
               /\ lastSave' = out
               /\ report' = LoadReport(store) \o SaveReport(out) \o <<"Loaded">>
    /\ tree' = load_expenses(expenses')
    /\ report_type' = "category"
    /\ from_date_entry' = T_FirstDay
    /\ to_date_entry' = T_LastDay
    /\ csv' = csv
    /\ search_entry' = T_SearchHint
    /\ quick_category_entry' = get_categories(expenses')
    /\ chart' \in Charts("category", expenses', T_FirstDay, T_LastDay)

Next ==
    \/ load_data
    \/ \E f \in Forms : save_expense(f)
    \/ \E f \in Forms : quick_add_expense(f)
    \/ \E sel \in Selections : edit_expense(sel)
    \/ \E sel \in Selections, confirm \in BOOLEAN : delete_expense(sel, confirm)

Spec == Init /\ [][Next]_vars

----------------------------------------------------------------------------
(* The views on their own: the application started on a file that holds a  *)
(* ledger, and then only reported on (SpecReports), only searched          *)
(* (SpecSearch) or only exported (SpecExport).                             *)

\* The most categories of a ledger the reports are run on.
MaxCategories == 9

\* The name of the i-th category of such a ledger.
Cat(i) == <<"c">> \o NatToDigits(i)

\* The records the handlers make of the forms they take, appended to the
\* empty ledger one after the other: the ledgers of up to MaxLen records.
RECURSIVE Built(_)
Built(n) ==
    IF n = 0 THEN {<<>>}
    ELSE { add_expense_data(l, Checked[f].amount, f.category, f.description, f.date) :
             l \in Built(n - 1), f \in {g \in Forms : Checked[g].err = ""} }

\* Ledgers of n records in n categories, all on one date: the amounts
\* rising with the id, or all the same.
Spread(n, rising) ==
    [i \in 1..n |-> Expense(i, IF rising THEN Num(10 * i, 0) ELSE Num(50, 0),
                            Cat(i), T_FastFood, T_Jan05)]

ReportLedgers ==
    UNION {Built(n) : n \in 0..MaxLen}
    \cup {Spread(n, rising) : n \in (CollapseAbove - 1)..MaxCategories, rising \in BOOLEAN}

\* What the user types into the search entry.
SearchTexts ==
    { <<>>, T_SearchHint,
      <<"D","I","N">>, <<"5","0",".">>, <<"-","0","2","-">>, <<"z","z">> }

InitReports ==
    /\ expenses \in ReportLedgers
    /\ store = Stored(expenses)
    /\ lastSave = "none"
    /\ report = <<"Loaded">>
    /\ InitViews

\* The handler of the radio buttons and of the Apply button, run on the
\* widgets as the user has just set them.
refresh_reports ==
    /\ report' = RangeReport(from_date_entry', to_date_entry')
    /\ UNCHANGED <<expenses, store, lastSave, tree, csv, search_entry, quick_category_entry>>
    /\ chart' \in Charts(report_type', expenses, from_date_entry', to_date_entry')

\* A click on a radio button.
select_report_type(type) ==
    /\ report_type' = type
    /\ UNCHANGED <<from_date_entry, to_date_entry>>
    /\ refresh_reports

\* Apply, on the texts of the From and To entries.
apply_date_range(from, to) ==
    /\ from_date_entry' = from
    /\ to_date_entry' = to
    /\ UNCHANGED report_type
    /\ refresh_reports

\* A key released in the search entry, which then holds text.
search_expenses(text) ==
    /\ search_entry' = text
    /\ tree' = SearchRows(expenses, text, tree)
    /\ report' = <<>>
    /\ UNCHANGED <<expenses, store, lastSave, chart, csv, quick_category_entry, options>>

\* An export that sorts self.expenses in place before it writes them.
export_to_csv_sorting(chosen, out) ==
    IF ~chosen
    THEN /\ report' = <<>>
         /\ UNCHANGED <<expenses, store, lastSave, tree, chart, csv, search_entry, quick_category_entry, options>>
    ELSE /\ expenses' = SortByDateDesc(expenses)
         /\ csv' = CsvFile(expenses', out)
         /\ report' = IF out = "ok" THEN <<"Exported", "Export Successful">>
                      ELSE <<"Export Error">>
         /\ UNCHANGED <<store, lastSave, tree, chart, search_entry, quick_category_entry, options>>

\* Export to CSV; chosen is whether the file dialog returned a name.
export_to_csv(chosen, out) ==
    IF ~chosen
    THEN /\ report' = <<>>
         /\ UNCHANGED <<expenses, store, lastSave, tree, chart, csv, search_entry, quick_category_entry, options>>
    ELSE /\ csv' = CsvFile(expenses, out)
         /\ report' = IF out = "ok" THEN <<"Exported", "Export Successful">>
                      ELSE <<"Export Error">>
         /\ UNCHANGED <<expenses, store, lastSave, tree, chart, search_entry, quick_category_entry, options>>

\* The Reports tab.
NextReports ==
    \/ \E type \in ReportTypes : select_report_type(type)
    \/ \E rg \in Ranges : apply_date_range(rg[1], rg[2])

SpecReports == InitReports /\ [][NextReports]_vars

\* The search entry.
NextSearch == \E text \in SearchTexts : search_expenses(text)

SpecSearch == InitReports /\ [][NextSearch]_vars

\* The export button.
NextExport == \E chosen \in BOOLEAN, out \in ExportOutcomes : export_to_csv(chosen, out)

SpecExport == InitReports /\ [][NextExport]_vars

\* The application as it was constructed, and then only looked at: the
\* Reports tab, the search entry and the export button.
NextViews ==
    \/ NextReports
    \/ NextSearch
    \/ NextExport

SpecViews == Init /\ [][NextViews]_vars

----------------------------------------------------------------------------
(* Vocabulary of the properties *)

Last(t) == t[Len(t)]

\* amount > 0 on a float: like every comparison, False for nan.
GtZero(x) ==
    CASE x.kind = "nan" -> FALSE
      [] x.kind = "inf" -> x.m > 0
      [] OTHER          -> x.m > 0

\* The last thing the last handler showed (its status line, when it set one).
Shown(text) == report # <<>> /\ Last(report) = text

\* The same of the handler of the step.
ShownNext(text) == report' # <<>> /\ Last(report') = text

\* A step of either add handler submitting form f.
AddStep(f) == save_expense(f) \/ quick_add_expense(f)

\* A step of the edit dialog's Update button submitting form f.
EditStep(f) == \E i \in 1..Len(expenses) : update_expense(i, f)

\* The forms the handlers take.
Accepted == {f \in Forms : Checked[f].err = ""}

\* A valid input: amount > 0, a category, a date strptime takes.
IsValidInput(f) ==
    /\ ParseFloat(f.amount).ok
    /\ GtZero(ParseFloat(f.amount).val)
    /\ f.category # <<>>
    /\ strptime(f.date).ok

ValidInputs == {f \in Forms : IsValidInput(f)}

\* An amount that is zero, negative or not a number.
IsBadAmount(f) == ~ParseFloat(f.amount).ok \/ ~GtZero(ParseFloat(f.amount).val)

BadAmounts == {f \in Forms : IsBadAmount(f)}

\* A category that is empty once blanks are trimmed, on an otherwise good amount.
BlankCategories == {f \in Forms \ BadAmounts : Strip(f.category) = <<>>}

\* A zero-padded YYYY-MM-DD text of a real calendar date.
StrictDate(t) ==
    /\ Len(t) = 10
    /\ \A i \in {1, 2, 3, 4, 6, 7, 9, 10} : IsDigit(t[i])
    /\ t[5] = "-" /\ t[8] = "-"
    /\ strptime(t).ok

----------------------------------------------------------------------------
(* Properties *)

\* C1: an add of a valid input appends exactly one record to the ledger, and
\* that record's id is the largest id of the ledger before plus one, or 1 when
\* the ledger was empty.
C1_AddAppendsNextId ==
    [][\A f \in ValidInputs :
          AddStep(f) =>
             /\ Len(expenses') = Len(expenses) + 1
             /\ SubSeq(expenses', 1, Len(expenses)) = expenses
             /\ Last(expenses').id =
                   (IF expenses = <<>> THEN 1 ELSE MaxOf(IdsOf(expenses)) + 1)]_vars

\* C1 witness: an add into a ledger whose only record has id 2 gave id 3.
C1_Witness ==
    /\ Shown("Expense added")
    /\ Len(expenses) = 2
    /\ expenses[1].id = 2
    /\ expenses[2].id = 3

\* C2: no two records of the ledger have the same id.
C2_UniqueIds ==
    \A i, j \in 1..Len(expenses) : i # j => expenses[i].id # expenses[j].id

\* C2 witness: a ledger of two records with ids 1 and 2, the second one added
\* by the user (sample data holds no such date).
C2_Witness ==
    /\ Shown("Expense added")
    /\ Len(expenses) = 2
    /\ expenses[1].id = 1
    /\ expenses[2].id = 2
    /\ expenses[2].date = T_Jan5Unpadded

\* C3: a successful edit (one that ends on the status "Expense updated")
\* keeps the ledger's length and the edited record's id, gives that record
\* the submitted amount, category, description and date, and leaves every
\* other record as it was.
C3_EditFrame ==
    [][ShownNext("Expense updated")
       => \A i \in 1..Len(expenses), f \in Accepted :
             update_expense(i, f) =>
                /\ Len(expenses') = Len(expenses)
                /\ expenses'[i] = Expense(expenses[i].id, Checked[f].amount,
                                          f.category, f.description, f.date)
                /\ \A j \in 1..Len(expenses) : j # i => expenses'[j] = expenses[j]]_vars

\* C3 witness: an edit was saved in a ledger of two different records.
C3_Witness ==
    /\ Shown("Expense updated")
    /\ Len(expenses) = 2
    /\ expenses[1].category # expenses[2].category
    /\ expenses[1].amount # expenses[2].amount

\* C4: a confirmed delete of an id of the ledger shortens the ledger by exactly
\* one record, and no record with that id remains.
C4_DeleteRemoves ==
    [][\A sel \in Ids :
          (sel \in IdsOf(expenses) /\ delete_expense(sel, TRUE)) =>
             /\ Len(expenses') = Len(expenses) - 1
             /\ sel \notin IdsOf(expenses')]_vars

\* C4 witness: the first of two records was deleted.
C4_Witness ==
    /\ Shown("Expense deleted")
    /\ Len(expenses) = 1
    /\ expenses[1].id = 2

C6_BadAmountRejected ==
    [][\A f \in BadAmounts :
          (AddStep(f) \/ EditStep(f)) =>
             /\ UNCHANGED <<expenses, store, lastSave>>
             /\ report' \in {<<"Amount must be positive">>,
                             <<"Please enter a valid amount">>}]_vars

\* C7: every record of the ledger has amount > 0.
C7_AmountsPositive ==
    \A i \in 1..Len(expenses) : GtZero(expenses[i].amount)

\* C8: an add or edit whose category is empty once blanks are trimmed is
\* rejected as a missing category and does not change the ledger.
C8_BlankCategoryRejected ==
    [][\A f \in BlankCategories :
          (AddStep(f) \/ EditStep(f)) =>
             /\ UNCHANGED <<expenses, store, lastSave>>
             /\ report' = <<"Category is required">>]_vars

\* C9: only zero-padded YYYY-MM-DD texts of real calendar dates are accepted,
\* so every date in the ledger is such a 10-character text.
C9_StoredDatesStrict ==
    \A i \in 1..Len(expenses) : StrictDate(expenses[i].date)

\* C10: every add, edit and delete saves the whole ledger before it returns:
\* unless the most recent save failed, the file holds exactly the ledger, the
\* same records in the same order.
C10_StoreFollowsLedger ==
    lastSave # "write_failed" => store = Stored(expenses)

\* C10 witness: after an edit whose save succeeded, on a ledger of two records.
C10_Witness ==
    /\ report = <<"Expense updated">>
    /\ lastSave = "ok"
    /\ Len(expenses) = 2
    /\ store = Stored(expenses)

----------------------------------------------------------------------------
(* Load and save *)

\* C11: when the application is started on the file a successful save has
\* just written, the ledger it loads is the ledger that was saved: the same
\* records, in the same order, with the same field values.
C11_LoadAfterSave ==
    [][(lastSave = "ok" /\ load_data) => expenses' = expenses]_vars

\* A ledger loaded from the file, whose second record was added by the user
\* with a date that is not zero-padded and an amount with a fraction.
C11_Witness ==
    /\ lastSave = "none"
    /\ Len(expenses) = 2
    /\ expenses[2].date = T_Jan5Unpadded
    /\ \E i \in 1..2 : expenses[i].amount = Num(255, 1)

\* C12: the file never holds a part of a ledger, so that no load can find
\* one, a save that fails part-way included.
C12_NoPartialStore == store.kind # "partial"

\* C13: when the save of an add, an edit or a delete fails, the error is
\* shown, once, before the status line the handler goes on to; the ledger
\* in memory keeps the change; and the file is left as the failed write
\* left it (no second attempt).
C13_SaveFailureKept ==
    [][/\ (lastSave' = "write_failed" /\ ShownNext("Expense added"))
          => \A f \in Accepted :
                AddStep(f)
                => /\ Len(expenses') = Len(expenses) + 1
                   /\ Last(expenses').category = f.category
                   /\ report' = <<"Error saving data", "Expense added">>
                   /\ store' = Partial
       /\ (lastSave' = "write_failed" /\ ShownNext("Expense updated"))
          => \A i \in 1..Len(expenses), f \in Accepted :
                update_expense(i, f)
                => /\ expenses'[i].category = f.category
                   /\ expenses'[i].date = f.date
                   /\ report' = <<"Error saving data", "Expense updated">>
                   /\ store' = Partial
       /\ (lastSave' = "write_failed" /\ ShownNext("Expense deleted"))
          => \A sel \in IdsOf(expenses) :
                delete_expense(sel, TRUE)
                => /\ Len(expenses') = Len(expenses) - 1
                   /\ sel \notin IdsOf(expenses')
                   /\ report' = <<"Error saving data", "Expense deleted">>
                   /\ store' = Partial
      ]_vars

\* An add whose save failed: two records in memory, the error and the
\* status line shown, the file partial.
C13_Witness ==
    /\ lastSave = "write_failed"
    /\ report = <<"Error saving data", "Expense added">>
    /\ Len(expenses) = 2
    /\ store = Partial

\* C14: started on a file that does not parse, the application shows the
\* load error and goes on with a fresh sample ledger, numbered 1, 2, ...,
\* which it saves over the file.
C14_CorruptFallsBackToSample ==
    [][(store.kind = "partial" /\ load_data)
       => /\ Head(report') = "Error loading data"
          /\ \A i \in 1..Len(expenses') : expenses'[i].id = i
          /\ lastSave' \in SaveOutcomes
          /\ lastSave' = "ok" => store' = Stored(expenses')]_vars

\* The application after a start on a file that did not parse, with a
\* sample ledger of two records.
C14_Witness ==
    /\ report = <<"Error loading data", "Loaded">>
    /\ Len(expenses) = 2
    /\ lastSave = "ok"

\* C14 as stated: started on a file that does not parse, the application
\* shows the load error and goes on with an empty ledger.
C14_CorruptFallsBackToEmpty ==
    [][(store.kind = "partial" /\ load_data)
       => /\ Head(report') = "Error loading data"
          /\ expenses' = <<>>]_vars

----------------------------------------------------------------------------
(* Reports, search and export *)

\* The records the chart on screen was drawn from.
Filtered == FilterByRange(expenses, from_date_entry, to_date_entry)

\* The total of the records of rows that satisfy test.
TotalWhere(rows, test(_)) == FSum(Amounts(SelectSeq(rows, test)))

\* C15: the slices of the category breakdown, "Other" included, add up to
\* the total of the records in the date range, and so does the total shown
\* under the chart.
C15_CategoryTotalsSum ==
    chart.kind = "category"
    => /\ FSum(chart.amounts) = FSum(Amounts(Filtered))
       /\ chart.total = FSum(Amounts(Filtered))

\* A breakdown of more than eight categories: seven slices and "Other".
C15_Witness ==
    /\ chart.kind = "category"
    /\ Len(chart.labels) = KeptCategories + 1
    /\ Last(chart.labels) = T_Other
    /\ Cardinality({Filtered[i].category : i \in 1..Len(Filtered)}) = MaxCategories

\* C16: with more than eight categories in the range the breakdown keeps
\* the eight with the highest totals and puts the sum of the others last as
\* "Other"; with eight or fewer it has one slice for each category.
C16_EightKeptRestOther ==
    chart.kind = "category"
    => LET cats     == {Filtered[i].category : i \in 1..Len(Filtered)}
           of(c)    == TotalWhere(Filtered, LAMBDA r : r.category = c)
           kept     == {chart.labels[i] : i \in 1..CollapseAbove}
           others   == SortedTexts(cats \ kept)
       IN  IF Cardinality(cats) > CollapseAbove
           THEN /\ Len(chart.labels) = CollapseAbove + 1
                /\ Last(chart.labels) = T_Other
                /\ kept \subseteq cats
                /\ \A c \in kept, d \in cats \ kept : ~FLess(of(c), of(d))
                /\ Last(chart.amounts) = FSum([i \in 1..Len(others) |-> of(others[i])])
           ELSE /\ Len(chart.labels) = Cardinality(cats)
                /\ {chart.labels[i] : i \in 1..Len(chart.labels)} = cats

C19_SearchListsMatches ==
    [][\A text \in SearchTexts :
          search_expenses(text)
          => {tree'[i] : i \in 1..Len(tree')}
               = IF Lower(text) = <<>> \/ Lower(text) = T_Placeholder
                 THEN IdsOf(expenses)
                 ELSE {expenses[i].id : i \in {j \in 1..Len(expenses) :
                                                 Matches(Lower(text), expenses[j])}}
      ]_vars

\* C20: an export that succeeds writes the header id, date, amount,
\* category, description and then one row for each record, in the order
\* of the ledger, the id and the amount such that reading them back gives
\* the record's, the texts as they are; the ledger is left as it was.
C20_ExportRows ==
    [][export_to_csv(TRUE, "ok")
       => /\ csv'.header = <<"id", "date", "amount", "category", "description">>
          /\ Len(csv'.rows) = Len(expenses)
          /\ \A i \in 1..Len(expenses) :
                /\ DigitsToNat(csv'.rows[i][1]) = expenses[i].id
                /\ csv'.rows[i][2] = expenses[i].date
                /\ ParseFloat(csv'.rows[i][3]).val = expenses[i].amount
                /\ csv'.rows[i][4] = expenses[i].category
                /\ csv'.rows[i][5] = expenses[i].description
          /\ expenses' = expenses]_vars

\* An exported file of two rows, the first with the later date and an
\* amount with a fraction.
C20_Witness ==
    /\ csv.kind = "csv"
    /\ Len(csv.rows) = 2
    /\ csv.rows[1][3] = <<"2","5",".","5">>
    /\ StrLess(csv.rows[2][2], csv.rows[1][2])
    /\ Len(expenses) = 2

\* C20 as stated: the header is ID, Date, Amount, Category, Description.
C20_ExportCapitalHeader ==
    [][export_to_csv(TRUE, "ok")
       => /\ csv'.header = <<"ID", "Date", "Amount", "Category", "Description">>
          /\ Len(csv'.rows) = Len(expenses)
          /\ expenses' = expenses]_vars

----------------------------------------------------------------------------
(* The order of the breakdown, the trend figures and the date range *)

RECURSIVE DaysBefore(_, _)
\* The days of year y before its month m.
DaysBefore(y, m) ==
    IF m <= 1 THEN 0 ELSE DaysBefore(y, m - 1) + DaysInMonth(y, m - 1)

\* The number of the calendar day a date text names, counted from
\* 0001-01-01.
DayNumber(t) ==
    LET p == strptime(t)
        y == p.y - 1
    IN  365 * y + (y \div 4) - (y \div 100) + (y \div 400) + DaysBefore(p.y, p.m) + p.d

MinOf(S) == CHOOSE x \in S : \A y \in S : x <= y

\* The records whose calendar day is from the From day to the To day.
CalendarFiltered ==
    SelectSeq(expenses,
              LAMBDA r : /\ DayNumber(from_date_entry) <= DayNumber(r.date)
                         /\ DayNumber(r.date) <= DayNumber(to_date_entry))

\* C23: the slices of the category breakdown are in descending order of
\* their totals ("Other", which a collapse puts last, aside).
C23_GroupsDescending ==
    chart.kind = "category"
    => LET n == IF Last(chart.labels) = T_Other /\ Len(chart.labels) = KeptCategories + 1
                THEN Len(chart.labels) - 1 ELSE Len(chart.labels)
       IN  \A i \in 1..(n - 1) : ~FLess(chart.amounts[i], chart.amounts[i + 1])

C26_RangeInclusiveCalendar ==
    RangeChecked[<<from_date_entry, to_date_entry>>]
    => /\ Filtered = CalendarFiltered
       /\ chart.kind = "nodata" <=> CalendarFiltered = <<>>
       /\ chart.kind \in {"category", "trend"}
            => chart.total = FSum(Amounts(CalendarFiltered))

----------------------------------------------------------------------------
(* What changes the ledger, and the ids over time *)

\* C28: the categories the quick-add form offers are the categories of
\* the ledger that are not empty, each once, sorted: at the start and
\* after every add, edit and delete.
C28_CategoriesFollowLedger ==
    quick_category_entry = get_categories(expenses)

\* C21: a report, a search or an export leaves the ledger in memory and
\* the file of the ledger as they were.
C21_ViewsLeaveLedger ==
    [][NextViews => expenses' = expenses /\ store' = store]_vars

\* After a search, a trend report and an export on a ledger of two records
\* that is not in the order of the list on screen.
C21_Witness ==
    /\ Len(expenses) = 2
    /\ SortByDateDesc(expenses) # expenses
    /\ search_entry = <<"z","z">>
    /\ chart.kind = "trend"
    /\ csv.kind = "csv"
    /\ store = Stored(expenses)

============================================================================
